---- MODULE Spec2Model ----
(***************************************************************************)
(* The resource teardown sweep of sample-notebook.ipynb ("Clean up" cell): *)
(* list the models, per model list the versions, delete the non-default    *)
(* versions, poll their operations, delete versions[0], then poll the      *)
(* default deletions and delete every model.                               *)
(*                                                                         *)
(* One step of the model is one management API call (or one loop test      *)
(* between two calls) of the single-threaded script.  API payloads are     *)
(* records whose DOMAIN is the set of keys of the JSON object, so that the *)
(* script's key-presence tests ("isDefault" not in version, "done" in      *)
(* response, "error" in response) are modelled as what they are.           *)
(***************************************************************************)
EXTENDS Integers, Sequences, FiniteSets, TLC

MaxModels == 2
MaxVersions == 3

\* time.sleep(5): the wait that opens a polling round
SleepSeconds == 5

VARIABLES
    pc,                         \* position of the script
    err,                        \* exception that ended the script, or "none"
    remote,                     \* remote[m]: version list the API serves for model m
    models,                     \* models = get_models(project)
    mi,                         \* iterator index of "for model in models" (first loop)
    versions,                   \* versions = get_versions(model["name"])
    vi,                         \* iterator index of "for version in versions"
    deletions_in_progress,      \* pending handles of the non-default deletions
    default_version_deletions,  \* pending handles of the versions[0] deletions
    pi,                         \* iterator index of the for loop of a polling round
    dmi,                        \* iterator index of the final "for model in models"
    requests,                   \* history: delete requests sent, in order
    apiDone,                    \* history: handles the API answered with done = true
    completed,                  \* history: handles the poller printed "Deletion completed" for
    rechecked,                  \* history: handles status-checked after "Deletion completed"
    noDefaultPolls,             \* history: models with a status check in their non-default wait loop
    roundStart,                 \* history: pending list at the start of the current round
    roundChecked,               \* history: handles status-checked so far in the current round
    slept,                      \* history: seconds slept since the current round was entered
    \* the online prediction cells (lines 887-947)
    ppc,                        \* position in the prediction cells
    perr,                       \* exception that ended them, or "none"
    test_df,                    \* the test set: one row per element
    session_ids,                \* session_ids = test_df.pop('sessionId')
    batch_size,                 \* BATCH_SIZE
    model_version,              \* MODEL_VERSION bound by partial(), or "None"
    num_batches,                \* num_batches = len(test_df)//BATCH_SIZE
    bi,                         \* i of "for i in range(num_batches+1)"
    prediction_scores,          \* prediction_scores
    predictions,                \* the DataFrame built from session_ids and prediction_scores
    sent,                       \* history: predict requests sent, in order
    last_response               \* history: payload of the last predict request, <<>> if none

sweepVars == <<pc, err, remote, models, mi, versions, vi, deletions_in_progress,
               default_version_deletions, pi, dmi, requests, apiDone, completed,
               rechecked, noDefaultPolls, roundStart, roundChecked, slept>>

predVars == <<ppc, perr, test_df, session_ids, batch_size, model_version, num_batches,
              bi, prediction_scores, predictions, sent, last_response>>

vars == <<sweepVars, predVars>>

loopVars == <<models, mi, versions, vi, deletions_in_progress,
              default_version_deletions, pi, dmi>>
pollHist == <<apiDone, completed, rechecked, noDefaultPolls, roundStart, roundChecked,
              slept>>

----------------------------------------------------------------------------
(* Remote resources.  A version is the JSON object of versions.list: the   *)
(* key isDefault is present on the default version only.                   *)

VersionObject(m, k, isDefault) ==
    IF isDefault THEN [name |-> <<m, k>>, isDefault |-> TRUE]
    ELSE [name |-> <<m, k>>]

\* The version list of model m: n versions, the one at position d is the default.
VersionList(m, n, d) == [k \in 1..n |-> VersionObject(m, k, k = d)]

\* Every list of 0..MaxVersions versions with exactly one default when non-empty.
VersionLists(m) ==
    {<<>>} \cup UNION {{VersionList(m, n, d) : d \in 1..n} : n \in 1..MaxVersions}

ModelObject(m) == [name |-> m]

\* The remote projects the sweep may be run against: 0..MaxModels models.
RemoteConfigs ==
    UNION {{r \in [1..M -> UNION {VersionLists(m) : m \in 1..M}] :
                \A m \in 1..M : r[m] \in VersionLists(m)} : M \in 0..MaxModels}

\* Payloads of versions.delete / models.delete: a long-running operation
\* named h, or a payload that carries an error key.
DeleteResponses(h) == {[name |-> h], [error |-> "error"]}

\* Payloads of operations.get for the operation named h.
StatusResponses(h) ==
    {[name |-> h], [name |-> h, done |-> FALSE], [name |-> h, done |-> TRUE]}

----------------------------------------------------------------------------
(* Python helpers *)

\* Remove with list.pop() in its place: the last element goes, whatever x is.
Remove_PopsLast(list, x) == SubSeq(list, 1, Len(list) - 1)

\* list.remove(x): drop the first element equal to x.
Remove(list, x) ==
    LET i == CHOOSE i \in 1..Len(list) :
                 list[i] = x /\ \A j \in 1..(i - 1) : list[j] # x
    IN SubSeq(list, 1, i - 1) \o SubSeq(list, i + 1, Len(list))

Range(list) == {list[i] : i \in 1..Len(list)}

\* Raise caught by a handler that records the exception and lets the script go on.
Raise_Swallowed(e) == pc' = pc /\ err' = e

\* The exception leaves the script: nothing after it runs.
Raise(e) == pc' = "raised" /\ err' = e

\* if "done" in response: return True / else: return False
is_version_deleted(response) == "done" \in DOMAIN response

\* if "error" in response: print(error) -- error is not a defined name
PrintsUndefinedError(response) == "error" \in DOMAIN response

\* "isDefault" not in version
NotDefault(version) == "isDefault" \notin DOMAIN version

\* The request a delete call sends, as recorded in the history.
DeleteVersionRequest(version) == [op |-> "delete_version", name |-> version.name]
DeleteModelRequest(model) == [op |-> "delete_model", name |-> model.name]

\* The name of the operation the API starts for the next request.
NextHandle == Len(requests) + 1

----------------------------------------------------------------------------
\* The prediction cells are not part of the sweep: their variables stay idle.
PredictNotRun ==
    /\ ppc = "not_run"
    /\ perr = "none"
    /\ test_df = <<>>
    /\ session_ids = <<>>
    /\ batch_size = 1
    /\ model_version = "None"
    /\ num_batches = 0
    /\ bi = 0
    /\ prediction_scores = <<>>
    /\ predictions = <<>>
    /\ sent = <<>>
    /\ last_response = <<>>

Init ==
    /\ pc = "get_models"
    /\ err = "none"
    /\ remote \in RemoteConfigs
    /\ models = <<>>
    /\ mi = 1
    /\ versions = <<>>
    /\ vi = 1
    /\ deletions_in_progress = <<>>
    /\ default_version_deletions = <<>>
    /\ pi = 1
    /\ dmi = 1
    /\ requests = <<>>
    /\ apiDone = {}
    /\ completed = {}
    /\ rechecked = {}
    /\ noDefaultPolls = {}
    /\ roundStart = <<>>
    /\ roundChecked = <<>>
    /\ slept = 0
    /\ PredictNotRun

\* models = get_models(project); default_version_deletions = []
GetModels ==
    /\ pc = "get_models"
    /\ \/ Raise("HttpError")
          /\ UNCHANGED <<loopVars>>
       \/ Len(remote) = 0           \* list payload without the "models" key
          /\ Raise("KeyError")
          /\ UNCHANGED <<loopVars>>
       \/ /\ models' = [m \in 1..Len(remote) |-> ModelObject(m)]
          /\ default_version_deletions' = <<>>
          /\ mi' = 1
          /\ pc' = "for_model"
          /\ UNCHANGED <<err, versions, vi, deletions_in_progress, pi, dmi>>
    /\ UNCHANGED <<remote, requests, pollHist>>
    /\ UNCHANGED predVars

\* for model in models: versions = get_versions(...); deletions_in_progress = []
ForModelNext ==
    /\ pc = "for_model"
    /\ mi <= Len(models)
    /\ LET model == models[mi] IN
       /\ mi' = mi + 1
       /\ \/ Raise("HttpError")
             /\ UNCHANGED <<versions, vi, deletions_in_progress>>
          \/ Len(remote[model.name]) = 0   \* list payload without the "versions" key
             /\ Raise("KeyError")
             /\ UNCHANGED <<versions, vi, deletions_in_progress>>
          \/ /\ versions' = remote[model.name]
             /\ deletions_in_progress' = <<>>
             /\ vi' = 1
             /\ pc' = "for_version"
             /\ UNCHANGED err
    /\ UNCHANGED <<remote, models, default_version_deletions, pi, dmi, requests, pollHist>>
    /\ UNCHANGED predVars

\* the first "for model in models" is exhausted
ForModelEnd ==
    /\ pc = "for_model"
    /\ mi > Len(models)
    /\ pc' = "while_default"
    /\ UNCHANGED <<err, remote, loopVars, requests, pollHist>>
    /\ UNCHANGED predVars

\* for version in versions: a non-default version is removed from the list
\* being iterated and deleted
ForVersionDelete ==
    /\ pc = "for_version"
    /\ vi <= Len(versions)
    /\ NotDefault(versions[vi])
    /\ LET version == versions[vi] IN
       /\ vi' = vi + 1
       /\ versions' = Remove(versions, version)
       /\ requests' = Append(requests, DeleteVersionRequest(version))
       /\ \/ Raise("HttpError")
             /\ UNCHANGED deletions_in_progress
          \/ \E response \in DeleteResponses(NextHandle) :
               IF PrintsUndefinedError(response)
               THEN Raise("NameError") /\ UNCHANGED deletions_in_progress
               ELSE /\ deletions_in_progress' = Append(deletions_in_progress, response.name)
                    /\ UNCHANGED <<pc, err>>
    /\ UNCHANGED <<remote, models, mi, default_version_deletions, pi, dmi, pollHist>>
    /\ UNCHANGED predVars

\* for version in versions: the version carries isDefault and is passed over
ForVersionSkip ==
    /\ pc = "for_version"
    /\ vi <= Len(versions)
    /\ ~NotDefault(versions[vi])
    /\ vi' = vi + 1
    /\ UNCHANGED <<pc, err, remote, models, mi, versions, deletions_in_progress,
                   default_version_deletions, pi, dmi, requests, pollHist>>
    /\ UNCHANGED predVars

\* "for version in versions" is exhausted
ForVersionEnd ==
    /\ pc = "for_version"
    /\ vi > Len(versions)
    /\ pc' = "while_deletions"
    /\ vi' = 1                      \* the list iterator is dropped
    /\ UNCHANGED <<err, remote, models, mi, versions, deletions_in_progress,
                   default_version_deletions, pi, dmi, requests, pollHist>>
    /\ UNCHANGED predVars

\* One status check of handle d of the list pending: the history it leaves.
StatusCheck(d, response) ==
    /\ apiDone' = (IF "done" \in DOMAIN response /\ response.done
                   THEN apiDone \cup {d} ELSE apiDone)
    /\ completed' = (IF is_version_deleted(response) THEN completed \cup {d} ELSE completed)
    /\ rechecked' = (IF d \in completed THEN rechecked \cup {d} ELSE rechecked)
    /\ roundChecked' = Append(roundChecked, d)

\* One status request for handle d that raised: the history it leaves.
StatusCheckRaised(d) ==
    /\ rechecked' = (IF d \in completed THEN rechecked \cup {d} ELSE rechecked)
    /\ roundChecked' = Append(roundChecked, d)
    /\ UNCHANGED <<apiDone, completed>>

\* WhileDeletionsRound without time.sleep(5): the round starts at once.
WhileDeletionsRound_NoSleep ==
    /\ pc = "while_deletions"
    /\ Len(deletions_in_progress) > 0
    /\ pi' = 1
    /\ roundStart' = deletions_in_progress
    /\ roundChecked' = <<>>
    /\ pc' = "for_deletion"
    /\ UNCHANGED <<err, remote, models, mi, versions, vi, deletions_in_progress,
                   default_version_deletions, dmi, requests, apiDone, completed,
                   rechecked, noDefaultPolls, slept>>
    /\ UNCHANGED predVars

\* while len(deletions_in_progress) > 0: sleep 5 s, start a round
WhileDeletionsRound ==
    /\ pc = "while_deletions"
    /\ Len(deletions_in_progress) > 0
    /\ pi' = 1
    /\ slept' = slept + SleepSeconds
    /\ roundStart' = deletions_in_progress
    /\ roundChecked' = <<>>
    /\ pc' = "for_deletion"
    /\ UNCHANGED <<err, remote, models, mi, versions, vi, deletions_in_progress,
                   default_version_deletions, dmi, requests, apiDone, completed,
                   rechecked, noDefaultPolls>>
    /\ UNCHANGED predVars

\* WhileDeletionsExit without its wait: versions[0] is deleted while
\* non-default deletions may still be pending.
WhileDeletionsExit_NoWait ==
    /\ pc = "while_deletions"
    /\ IF Len(versions) = 0
       THEN Raise("IndexError") /\ UNCHANGED <<requests, default_version_deletions>>
       ELSE /\ requests' = Append(requests, DeleteVersionRequest(versions[1]))
            /\ \/ Raise("HttpError")
                  /\ UNCHANGED default_version_deletions
               \/ \E response \in DeleteResponses(NextHandle) :
                    IF PrintsUndefinedError(response)
                    THEN Raise("NameError") /\ UNCHANGED default_version_deletions
                    ELSE /\ default_version_deletions' =
                                Append(default_version_deletions, response.name)
                         /\ pc' = "for_model"
                         /\ UNCHANGED err
    /\ UNCHANGED <<remote, models, mi, versions, vi, deletions_in_progress, pi, dmi, pollHist>>
    /\ UNCHANGED predVars

\* the non-default wait loop is left; delete_version(versions[0])
WhileDeletionsExit ==
    /\ pc = "while_deletions"
    /\ ~(Len(deletions_in_progress) > 0)
    /\ IF Len(versions) = 0
       THEN Raise("IndexError") /\ UNCHANGED <<requests, default_version_deletions>>
       ELSE /\ requests' = Append(requests, DeleteVersionRequest(versions[1]))
            /\ \/ Raise("HttpError")
                  /\ UNCHANGED default_version_deletions
               \/ \E response \in DeleteResponses(NextHandle) :
                    IF PrintsUndefinedError(response)
                    THEN Raise("NameError") /\ UNCHANGED default_version_deletions
                    ELSE /\ default_version_deletions' =
                                Append(default_version_deletions, response.name)
                         /\ pc' = "for_model"
                         /\ UNCHANGED err
    /\ UNCHANGED <<remote, models, mi, versions, vi, deletions_in_progress, pi, dmi, pollHist>>
    /\ UNCHANGED predVars

\* for deletion_in_progress in deletions_in_progress: one status check
ForDeletionCheck ==
    /\ pc = "for_deletion"
    /\ pi <= Len(deletions_in_progress)
    /\ LET deletion_in_progress == deletions_in_progress[pi] IN
       /\ pi' = pi + 1
       /\ noDefaultPolls' = noDefaultPolls \cup {models[mi - 1].name}
       /\ \/ Raise("HttpError")
             /\ StatusCheckRaised(deletion_in_progress)
             /\ UNCHANGED deletions_in_progress
          \/ \E response \in StatusResponses(deletion_in_progress) :
               /\ StatusCheck(deletion_in_progress, response)
               /\ deletions_in_progress' =
                      (IF is_version_deleted(response)
                       THEN Remove(deletions_in_progress, deletion_in_progress)
                       ELSE deletions_in_progress)
               /\ UNCHANGED <<pc, err>>
    /\ UNCHANGED <<remote, models, mi, versions, vi, default_version_deletions, dmi,
                   requests, roundStart, slept>>
    /\ UNCHANGED predVars

\* the for loop of a non-default round is exhausted
ForDeletionEnd ==
    /\ pc = "for_deletion"
    /\ pi > Len(deletions_in_progress)
    /\ pc' = "while_deletions"
    /\ pi' = 1                      \* the list iterator is dropped
    /\ roundStart' = <<>>
    /\ roundChecked' = <<>>
    /\ slept' = 0
    /\ UNCHANGED <<err, remote, models, mi, versions, vi, deletions_in_progress,
                   default_version_deletions, dmi, requests, apiDone, completed,
                   rechecked, noDefaultPolls>>
    /\ UNCHANGED predVars

\* while len(default_version_deletions) > 0: sleep 5 s, start a round
WhileDefaultRound ==
    /\ pc = "while_default"
    /\ Len(default_version_deletions) > 0
    /\ pi' = 1
    /\ slept' = slept + SleepSeconds
    /\ roundStart' = default_version_deletions
    /\ roundChecked' = <<>>
    /\ pc' = "for_default"
    /\ UNCHANGED <<err, remote, models, mi, versions, vi, deletions_in_progress,
                   default_version_deletions, dmi, requests, apiDone, completed,
                   rechecked, noDefaultPolls>>
    /\ UNCHANGED predVars

\* WhileDefaultExit without its wait: the default deletions are not polled to the end.
WhileDefaultExit_NoWait ==
    /\ pc = "while_default"
    /\ dmi' = 1
    /\ pc' = "for_delete_model"
    /\ UNCHANGED <<err, remote, models, mi, versions, vi, deletions_in_progress,
                   default_version_deletions, pi, requests, pollHist>>
    /\ UNCHANGED predVars

\* the default wait loop is left
WhileDefaultExit ==
    /\ pc = "while_default"
    /\ ~(Len(default_version_deletions) > 0)
    /\ dmi' = 1
    /\ pc' = "for_delete_model"
    /\ UNCHANGED <<err, remote, models, mi, versions, vi, deletions_in_progress,
                   default_version_deletions, pi, requests, pollHist>>
    /\ UNCHANGED predVars

\* for default_version_deletion in default_version_deletions: one status check
ForDefaultCheck ==
    /\ pc = "for_default"
    /\ pi <= Len(default_version_deletions)
    /\ LET default_version_deletion == default_version_deletions[pi] IN
       /\ pi' = pi + 1
       /\ \/ Raise("HttpError")
             /\ StatusCheckRaised(default_version_deletion)
             /\ UNCHANGED default_version_deletions
          \/ \E response \in StatusResponses(default_version_deletion) :
               /\ StatusCheck(default_version_deletion, response)
               /\ default_version_deletions' =
                      (IF is_version_deleted(response)
                       THEN Remove(default_version_deletions, default_version_deletion)
                       ELSE default_version_deletions)
               /\ UNCHANGED <<pc, err>>
    /\ UNCHANGED <<remote, models, mi, versions, vi, deletions_in_progress, dmi,
                   requests, roundStart, noDefaultPolls, slept>>
    /\ UNCHANGED predVars

\* the for loop of a default round is exhausted
ForDefaultEnd ==
    /\ pc = "for_default"
    /\ pi > Len(default_version_deletions)
    /\ pc' = "while_default"
    /\ pi' = 1                      \* the list iterator is dropped
    /\ roundStart' = <<>>
    /\ roundChecked' = <<>>
    /\ slept' = 0
    /\ UNCHANGED <<err, remote, models, mi, versions, vi, deletions_in_progress,
                   default_version_deletions, dmi, requests, apiDone, completed,
                   rechecked, noDefaultPolls>>
    /\ UNCHANGED predVars

\* ForDeleteModelNext that loses a model per step, as a loop that removes the
\* model from the list it iterates would.
ForDeleteModelNext_SkipsNext ==
    /\ pc = "for_delete_model"
    /\ dmi <= Len(models)
    /\ dmi' = dmi + 2
    /\ requests' = Append(requests, DeleteModelRequest(models[dmi]))
    /\ \/ Raise("HttpError")
       \/ \E response \in DeleteResponses(NextHandle) :
            IF PrintsUndefinedError(response)
            THEN Raise("NameError")
            ELSE UNCHANGED <<pc, err>>
    /\ UNCHANGED <<remote, models, mi, versions, vi, deletions_in_progress,
                   default_version_deletions, pi, pollHist>>
    /\ UNCHANGED predVars

\* ForDeleteModelNext that keeps the operation of the model deletion as a pending
\* handle, as default_version_deletions.append(delete_model(model)) would.
ForDeleteModelNext_TracksHandle ==
    /\ pc = "for_delete_model"
    /\ dmi <= Len(models)
    /\ dmi' = dmi + 1
    /\ requests' = Append(requests, DeleteModelRequest(models[dmi]))
    /\ \/ Raise("HttpError") /\ UNCHANGED default_version_deletions
       \/ \E response \in DeleteResponses(NextHandle) :
            IF PrintsUndefinedError(response)
            THEN Raise("NameError") /\ UNCHANGED default_version_deletions
            ELSE /\ default_version_deletions' =
                        Append(default_version_deletions, response.name)
                 /\ UNCHANGED <<pc, err>>
    /\ UNCHANGED <<remote, models, mi, versions, vi, deletions_in_progress, pi, pollHist>>
    /\ UNCHANGED predVars

\* for model in models: delete_model(model)
ForDeleteModelNext ==
    /\ pc = "for_delete_model"
    /\ dmi <= Len(models)
    /\ dmi' = dmi + 1
    /\ requests' = Append(requests, DeleteModelRequest(models[dmi]))
    /\ \/ Raise("HttpError")
       \/ \E response \in DeleteResponses(NextHandle) :
            IF PrintsUndefinedError(response)
            THEN Raise("NameError")
            ELSE UNCHANGED <<pc, err>>
    /\ UNCHANGED <<remote, models, mi, versions, vi, deletions_in_progress,
                   default_version_deletions, pi, pollHist>>
    /\ UNCHANGED predVars

\* the final loop is exhausted: the cell ends
ForDeleteModelEnd ==
    /\ pc = "for_delete_model"
    /\ dmi > Len(models)
    /\ pc' = "done"
    /\ UNCHANGED <<err, remote, loopVars, requests, pollHist>>
    /\ UNCHANGED predVars

Next ==
    \/ GetModels
    \/ ForModelNext
    \/ ForModelEnd
    \/ ForVersionDelete
    \/ ForVersionSkip
    \/ ForVersionEnd
    \/ WhileDeletionsRound
    \/ WhileDeletionsExit
    \/ ForDeletionCheck
    \/ ForDeletionEnd
    \/ WhileDefaultRound
    \/ WhileDefaultExit
    \/ ForDefaultCheck
    \/ ForDefaultEnd
    \/ ForDeleteModelNext
    \/ ForDeleteModelEnd

Spec == Init /\ [][Next]_vars

----------------------------------------------------------------------------
(* Vocabulary of the properties *)

IsDeleteVersion(k) == requests[k].op = "delete_version"
IsDeleteModel(k) == requests[k].op = "delete_model"

\* Positions in the history of the delete-version requests for versions of model m.
DeleteVersionIndices(m) ==
    {k \in 1..Len(requests) : IsDeleteVersion(k) /\ requests[k].name[1] = m}

\* Positions of the delete-version requests that name version v.
DeletesOf(v) == {k \in 1..Len(requests) : IsDeleteVersion(k) /\ requests[k].name = v}

VersionNames(m) == {remote[m][k].name : k \in 1..Len(remote[m])}
NonDefaultNames(m) == {remote[m][k].name : k \in {j \in 1..Len(remote[m]) : NotDefault(remote[m][j])}}
DefaultNames(m) == VersionNames(m) \ NonDefaultNames(m)

\* The script is past the per-model part (lines 1058-1075) of model m, unraised.
ModelSwept(m) ==
    \/ m < mi /\ pc \in {"for_model", "while_default", "for_default", "for_delete_model", "done"}
    \/ m < mi - 1 /\ pc \in {"for_version", "while_deletions", "for_deletion"}

ModelDeleteIssued == \E k \in 1..Len(requests) : IsDeleteModel(k)

\* A polling round has checked its last handle and is about to end.
RoundOver ==
    \/ pc = "for_deletion" /\ pi > Len(deletions_in_progress)
    \/ pc = "for_default" /\ pi > Len(default_version_deletions)

TimesChecked(h) == Cardinality({i \in 1..Len(roundChecked) : roundChecked[i] = h})

----------------------------------------------------------------------------
\* C1: once the sweep is past a model that has N >= 1 versions, one of them the
\* default, it has issued exactly N delete-version requests for that model, one
\* for each version and none twice.
C1_OneDeletePerVersion ==
    \A m \in 1..Len(models) :
        (ModelSwept(m) /\ Len(remote[m]) >= 1) =>
            /\ Cardinality(DeleteVersionIndices(m)) = Len(remote[m])
            /\ \A v \in VersionNames(m) : Cardinality(DeletesOf(v)) = 1

\* C2: a delete request for a default version is in the history only if every
\* non-default version of the same model has an earlier delete request whose
\* operation the API has reported done.
C2_DefaultDeletedLast ==
    \A k \in 1..Len(requests) :
        (IsDeleteVersion(k) /\ requests[k].name \in DefaultNames(requests[k].name[1])) =>
            \A w \in NonDefaultNames(requests[k].name[1]) :
                \E j \in 1..(k - 1) : j \in DeletesOf(w) /\ j \in apiDone

\* C3: no delete-version request follows a delete-model request, and
\* when the sweep has run to completion the delete-model requests are exactly
\* one per enumerated model, in enumeration order.
C3_OneDeleteModelPerModel ==
    /\ \A i \in 1..(Len(requests) - 1) : IsDeleteModel(i) => IsDeleteModel(i + 1)
    /\ pc = "done" =>
           /\ Len(models) = Len(remote)
           /\ SelectSeq(requests, LAMBDA r : r.op = "delete_model")
                  = [m \in 1..Len(models) |-> DeleteModelRequest(models[m])]

C3_Witness ==
    /\ pc = "done"
    /\ Len(models) = MaxModels
    /\ \E k \in 1..Len(requests) : IsDeleteVersion(k)

\* C4: from the first delete_model call on, both pending lists are empty and
\* every delete-version operation the sweep issued has been found complete by
\* the poller.
C4_NoModelDeleteWhilePending ==
    (pc = "for_delete_model" \/ ModelDeleteIssued) =>
        /\ deletions_in_progress = <<>>
        /\ default_version_deletions = <<>>
        /\ \A k \in 1..Len(requests) : IsDeleteVersion(k) => k \in completed

C4_Witness ==
    /\ ModelDeleteIssued
    /\ \E m \in 1..Len(models) : Cardinality(DeleteVersionIndices(m)) >= 2
    /\ Cardinality(completed) >= 3

\* C5: a handle the poller has removed from a pending list is one for which a
\* status check was answered by the API with done = true.
C5_RemovedOnlyWhenDone == completed \subseteq apiDone

\* C6: no status request is issued for a handle after the poller found it
\* complete and removed it.
C6_NoCheckAfterCompletion == rechecked = {}

\* A round is checking handles while another handle was completed before it.
C6_Witness ==
    /\ roundChecked # <<>>
    /\ \E h \in completed : h \notin Range(roundStart)
    /\ \E h \in completed : h \in Range(roundStart)

\* C7: a delete response that carries an error key does not make the sweep raise.
C7_ErrorKeyDoesNotRaise == ~(pc = "raised" /\ err = "NameError")

\* C8: for a model whose only version is its default: no status check in its
\* non-default wait loop, no delete request other than one for that version,
\* and the delete-model request of the model only after that operation was
\* reported done by the API.
C8_SingleDefaultVersion ==
    \A m \in 1..Len(models) :
        (Len(remote[m]) = 1) =>
            /\ m \notin noDefaultPolls
            /\ Cardinality(DeleteVersionIndices(m)) <= 1
            /\ ModelSwept(m) => Cardinality(DeletesOf(remote[m][1].name)) = 1
            /\ \A i \in 1..Len(requests) :
                   (IsDeleteModel(i) /\ requests[i].name = m) =>
                       \E k \in 1..(i - 1) : k \in DeletesOf(remote[m][1].name) /\ k \in apiDone

\* C9: when a polling round ends, every handle that was pending at its start
\* has been status-checked exactly once in it.
C9_EveryPendingCheckedOncePerRound ==
    RoundOver => \A h \in Range(roundStart) : TimesChecked(h) = 1

\* C10: the sweep issues a delete-model request or ends only if every
\* delete-version operation it issued has been reported done by the API.
C10_StuckOperationBlocksSweep ==
    (pc = "done" \/ ModelDeleteIssued) =>
        \A k \in 1..Len(requests) : IsDeleteVersion(k) => k \in apiDone

\* Every handle the poller holds, has held or has checked.
TrackedHandles ==
    Range(deletions_in_progress) \cup Range(default_version_deletions)
        \cup completed \cup Range(roundStart) \cup Range(roundChecked)

\* C11: every handle the sweep tracks or checks is the operation of a
\* delete-version request; once a delete-model request is issued no polling
\* round runs, nothing is pending, and when the last model is passed the
\* sweep has issued exactly its delete-model requests and ends.
C11_ModelDeleteFireAndForget ==
    /\ \A h \in TrackedHandles : h \in 1..Len(requests) /\ IsDeleteVersion(h)
    /\ ModelDeleteIssued =>
           /\ pc \in {"for_delete_model", "done", "raised"}
           /\ roundStart = <<>> /\ roundChecked = <<>>
           /\ deletions_in_progress = <<>> /\ default_version_deletions = <<>>
    /\ pc = "done" => (Len(requests) > 0 => IsDeleteModel(Len(requests)))

C11_Witness ==
    /\ pc = "done"
    /\ ModelDeleteIssued
    /\ Cardinality(completed) >= 2

\* C12: no step of the sweep is taken once an exception has left it, and a
\* step that starts at an enumerator call (get_models, get_versions) sends no
\* delete request and leaves both pending lists as they are.
C12_FailureEndsSweep ==
    [][/\ err = "none"
       /\ pc \in {"get_models", "for_model"} =>
              /\ requests' = requests
              /\ deletions_in_progress' = deletions_in_progress
              /\ default_version_deletions' = default_version_deletions]_vars

\* An API call failed in the middle of a polling round, with handles pending.
C12_Witness ==
    /\ pc = "raised" /\ err = "HttpError"
    /\ roundChecked # <<>>
    /\ default_version_deletions # <<>>

\* C13: when the non-default phase of a model that has versions is over, the
\* local list versions holds one element, and it carries isDefault.
C13_OnlyDefaultRemains ==
    (pc = "while_deletions" /\ Len(remote[models[mi - 1].name]) >= 1) =>
        /\ Len(versions) = 1
        /\ ~NotDefault(versions[1])

\* C14 as stated: while the sweep lists or deletes the versions of a model,
\* every delete-version operation of the models before it has been polled
\* until the poller found it complete.
C14_DefaultPolledBeforeNextModel ==
    pc \in {"for_version", "while_deletions", "for_deletion"} =>
        \A m \in 1..(mi - 2) : \A k \in DeleteVersionIndices(m) : k \in completed

\* C14 as amended: the delete of versions[0] is issued only after every
\* earlier delete of the same model was found complete by the poller; its
\* handle is not polled while the model loop runs, one handle per model past
\* accumulates, and the default wait loop starts after the last model.
C14_DefaultsPolledAfterAllModels ==
    /\ pc \in {"for_model", "for_version", "while_deletions", "for_deletion"} =>
           /\ Range(default_version_deletions) \cap (completed \cup Range(roundChecked)) = {}
           /\ Len(default_version_deletions) = (IF pc = "for_model" THEN mi - 1 ELSE mi - 2)
    /\ \A h \in Range(default_version_deletions) :
           \A j \in 1..(h - 1) :
               (IsDeleteVersion(j) /\ requests[j].name[1] = requests[h].name[1]) => j \in completed
    /\ pc \in {"while_default", "for_default"} => mi = Len(models) + 1

\* The second model's non-default deletions are polled while the first
\* model's last delete is still pending, unpolled.
C14_Witness ==
    /\ pc = "for_deletion"
    /\ roundChecked # <<>>
    /\ Len(default_version_deletions) = 1

\* C15: the sweep is never ended by an exception that is not the failure of
\* an API call (a raised call or an error payload).
C15_EndsOnlyByApiFailure ==
    pc = "raised" => err \in {"HttpError", "NameError"}

\* C16: a status check happens only in a round that was opened by one wait of
\* SleepSeconds, and a wait happens only with a non-empty pending list.
C16_WaitOpensEveryRound ==
    /\ pc \in {"for_deletion", "for_default"} => slept = SleepSeconds
    /\ roundChecked # <<>> => slept = SleepSeconds
    /\ slept \in {0, SleepSeconds}
    /\ slept # 0 => roundStart # <<>>

\* A second round of the same wait loop is checking a handle.
C16_Witness ==
    /\ pc \in {"for_deletion", "for_default"}
    /\ roundChecked # <<>>
    /\ completed # {}
    /\ slept = SleepSeconds

\* C17: a model without versions does not end the sweep, gets no
\* delete-version request, and has its delete-model request when the sweep is done.
C17_ZeroVersionModelHandled ==
    \A m \in 1..Len(models) :
        (Len(remote[m]) = 0) =>
            /\ ~(pc = "raised" /\ err \in {"KeyError", "IndexError"} /\ mi - 1 = m)
            /\ DeleteVersionIndices(m) = {}
            /\ pc = "done" => \E i \in 1..Len(requests) : IsDeleteModel(i) /\ requests[i].name = m

----------------------------------------------------------------------------
(* The online prediction cells: predict_json (lines 799-828) and the       *)
(* batching loop (lines 887-912), then the DataFrame of lines 944-947.     *)
(* A row of test_df keeps its DataFrame index; to_dict('records') drops it. *)

MaxRows == 4
MaxBatchSize == 3

Features == {0, 1}

TestRow(k, x) == [index |-> k, sessionId |-> 100 + k, feature |-> x]

\* Every test set of 0..MaxRows rows.
TestSets ==
    UNION {{[k \in 1..L |-> TestRow(k, f[k])] : f \in [1..L -> Features]} : L \in 0..MaxRows}

Min(a, b) == IF a <= b THEN a ELSE b

\* test_df.pop('sessionId'): the column that is returned, and the frame that is left
PopColumn(df) == [k \in 1..Len(df) |-> df[k].sessionId]
DropColumn(df) == [k \in 1..Len(df) |-> [index |-> df[k].index, feature |-> df[k].feature]]

\* df.iloc[start:stop, :] -- positions from 0, stop excluded, both clamped to len(df)
Iloc(df, start, stop) == SubSeq(df, Min(start, Len(df)) + 1, Min(stop, Len(df)))

\* batch_df.to_dict('records'): one dict per row, without the index
ToDictRecords(df) == [k \in 1..Len(df) |-> [feature |-> df[k].feature]]

\* The score the deployed model gives an instance.
Score(instance) == 1 - instance.feature

\* Payloads of projects.predict for a list of instances.
PredictResponses(instances) ==
    LET preds == [k \in 1..Len(instances) |-> [dense_1 |-> <<Score(instances[k])>>]]
    IN {[predictions |-> preds], [error |-> "error"],
        [error |-> "error", predictions |-> preds]}

\* name = 'projects/{}/models/{}'; if version is not None: name += '/versions/{}'
RequestName(v) ==
    <<"projects", "PROJECT_ID", "models", "MODEL_NAME">>
        \o (IF v # "None" THEN <<"versions", v>> ELSE <<>>)

\* PredictRaises that trusts a payload as soon as it has predictions.
PredictRaises_UnlessPredictions(payload) ==
    "error" \in DOMAIN payload /\ "predictions" \notin DOMAIN payload

\* if 'error' in response: raise RuntimeError(response['error'])
PredictRaises(payload) == "error" \in DOMAIN payload

\* NumIterations without the + 1: the rows after the last full batch are not sent.
NumIterations_FullBatchesOnly(n) == n

\* range(num_batches+1)
NumIterations(n) == n + 1

\* [p['dense_1'][0] for p in pred]
Scores(pred) == [k \in 1..Len(pred) |-> pred[k].dense_1[1]]

\* The sweep is not part of the prediction cells: its variables stay idle.
SweepNotRun ==
    /\ pc = "not_run"
    /\ err = "none"
    /\ remote = <<>>
    /\ models = <<>>
    /\ mi = 1
    /\ versions = <<>>
    /\ vi = 1
    /\ deletions_in_progress = <<>>
    /\ default_version_deletions = <<>>
    /\ pi = 1
    /\ dmi = 1
    /\ requests = <<>>
    /\ apiDone = {}
    /\ completed = {}
    /\ rechecked = {}
    /\ noDefaultPolls = {}
    /\ roundStart = <<>>
    /\ roundChecked = <<>>
    /\ slept = 0

PredictInit ==
    /\ SweepNotRun
    /\ ppc = "setup"
    /\ perr = "none"
    /\ test_df \in TestSets
    /\ batch_size \in 1..MaxBatchSize
    /\ model_version \in {"None", "v1"}
    /\ session_ids = <<>>
    /\ num_batches = 0
    /\ bi = 0
    /\ prediction_scores = <<>>
    /\ predictions = <<>>
    /\ sent = <<>>
    /\ last_response = <<>>

\* num_batches = len(test_df)//BATCH_SIZE; prediction_scores = [];
\* session_ids = test_df.pop('sessionId')
PredictSetup ==
    /\ ppc = "setup"
    /\ num_batches' = Len(test_df) \div batch_size
    /\ prediction_scores' = <<>>
    /\ session_ids' = PopColumn(test_df)
    /\ test_df' = DropColumn(test_df)
    /\ bi' = 0
    /\ ppc' = "for_batch"
    /\ UNCHANGED <<perr, batch_size, model_version, predictions, sent, last_response>>
    /\ UNCHANGED sweepVars

\* one iteration of "for i in range(num_batches+1)", predict_json included
PredictBatch ==
    /\ ppc = "for_batch"
    /\ bi < NumIterations(num_batches)
    /\ LET batch_df == Iloc(test_df, bi * batch_size, (bi + 1) * batch_size)
           instances == ToDictRecords(batch_df)
       IN /\ sent' = Append(sent, [name |-> RequestName(model_version),
                                   instances |-> instances,
                                   index |-> [k \in 1..Len(batch_df) |-> batch_df[k].index]])
          /\ \/ /\ ppc' = "raised"
                /\ perr' = <<"HttpError">>
                /\ last_response' = <<>>
                /\ UNCHANGED <<bi, prediction_scores>>
             \/ \E payload \in PredictResponses(instances) :
                  /\ last_response' = payload
                  /\ IF PredictRaises(payload)
                     THEN /\ ppc' = "raised"
                          /\ perr' = <<"RuntimeError", payload.error>>
                          /\ UNCHANGED <<bi, prediction_scores>>
                     ELSE /\ prediction_scores' = prediction_scores \o Scores(payload.predictions)
                          /\ bi' = bi + 1
                          /\ UNCHANGED <<ppc, perr>>
    /\ UNCHANGED <<test_df, session_ids, batch_size, model_version, num_batches, predictions>>
    /\ UNCHANGED sweepVars

\* the loop is exhausted; predictions = pd.DataFrame({'sessionId': session_ids,
\* 'addedToCart': prediction_scores}) -- columns of unequal length raise
PredictDataFrame ==
    /\ ppc = "for_batch"
    /\ ~(bi < NumIterations(num_batches))
    /\ IF Len(session_ids) # Len(prediction_scores)
       THEN /\ ppc' = "raised"
            /\ perr' = <<"ValueError">>
            /\ UNCHANGED predictions
       ELSE /\ predictions' = [k \in 1..Len(session_ids) |->
                                  [sessionId |-> session_ids[k],
                                   addedToCart |-> prediction_scores[k]]]
            /\ ppc' = "done"
            /\ UNCHANGED perr
    /\ UNCHANGED <<test_df, session_ids, batch_size, model_version, num_batches, bi,
                   prediction_scores, sent, last_response>>
    /\ UNCHANGED sweepVars

PredictNext ==
    \/ PredictSetup
    \/ PredictBatch
    \/ PredictDataFrame

PredictSpec == PredictInit /\ [][PredictNext]_vars

----------------------------------------------------------------------------
RECURSIVE Flatten(_)
Flatten(seqs) == IF seqs = <<>> THEN <<>> ELSE Head(seqs) \o Flatten(Tail(seqs))

\* The DataFrame index of every row sent so far, in the order sent.
SentIndex == Flatten([j \in 1..Len(sent) |-> sent[j].index])

\* C18: the rows sent so far are rows 1, 2, 3, ... of the test set, each once
\* and in order; when the loop is exhausted they are all its rows, and
\* prediction_scores holds the score of row k at position k, so the DataFrame
\* pairs every sessionId with the score of its own row.
C18_BatchesPartitionTestSet ==
    /\ SentIndex = [k \in 1..Len(SentIndex) |-> k]
    /\ (ppc = "for_batch" /\ ~(bi < NumIterations(num_batches))) =>
           /\ Len(SentIndex) = Len(test_df)
           /\ Len(prediction_scores) = Len(session_ids)
           /\ \A k \in 1..Len(test_df) : prediction_scores[k] = 1 - test_df[k].feature
    /\ ppc = "done" =>
           /\ Len(predictions) = Len(test_df)
           /\ \A k \in 1..Len(test_df) :
                  predictions[k] = [sessionId |-> 100 + test_df[k].index,
                                    addedToCart |-> 1 - test_df[k].feature]

\* A test set with a last, partial batch went through.
C18_Witness ==
    /\ ppc = "done"
    /\ Len(test_df) = MaxRows
    /\ Len(sent) >= 2
    /\ Len(sent[Len(sent)].instances) \in 1..(batch_size - 1)

\* C19: every predict request carries between 1 and BATCH_SIZE instances.
C19_NoEmptyBatch ==
    \A j \in 1..Len(sent) :
        Len(sent[j].instances) >= 1 /\ Len(sent[j].instances) <= batch_size

\* C20: a payload with an error key ends the cells with RuntimeError of that
\* error, adds nothing to prediction_scores and is the last request; a payload
\* without one contributes exactly its predictions; the request name ends in
\* /versions/<version> exactly when a version is supplied.
C20_ErrorResponseRaises ==
    /\ \A j \in 1..Len(sent) :
           /\ SubSeq(sent[j].name, 1, 4) = <<"projects", "PROJECT_ID", "models", "MODEL_NAME">>
           /\ IF model_version = "None"
              THEN Len(sent[j].name) = 4
              ELSE Len(sent[j].name) = 6 /\ sent[j].name[5] = "versions"
                   /\ sent[j].name[6] = model_version
    /\ (DOMAIN last_response # {} /\ "error" \in DOMAIN last_response) =>
           /\ ppc = "raised"
           /\ perr = <<"RuntimeError", last_response.error>>
           /\ Len(prediction_scores) = Len(SentIndex) - Len(sent[Len(sent)].index)
    /\ (DOMAIN last_response # {} /\ "error" \notin DOMAIN last_response) =>
           /\ ppc # "raised"
           /\ Len(prediction_scores) = Len(SentIndex)
           /\ \A k \in 1..Len(last_response.predictions) :
                  prediction_scores[Len(prediction_scores) - Len(last_response.predictions) + k]
                      = last_response.predictions[k].dense_1[1]
    /\ ppc = "raised" => (perr = <<"ValueError">> \/ Len(sent) = bi + 1)
    /\ ppc # "raised" => Len(sent) = bi

\* An error payload that also carries predictions arrived after a good batch.
C20_Witness ==
    /\ ppc = "raised"
    /\ perr = <<"RuntimeError", "error">>
    /\ "predictions" \in DOMAIN last_response
    /\ Len(last_response.predictions) >= 1
    /\ Len(prediction_scores) >= 1

====
